---- MODULE Spec2Model ----
(***************************************************************************)
(* Model of the rr record/replay backend (package gdbserial):              *)
(*   rrParseGdbCommand, safeRemoveAll, RecordAsync / openRedirects,        *)
(*   Replay / rrStderrParser.                                              *)
(* Strings are sequences of one-character strings, so that prefix tests,   *)
(* tokenisation and trimming are computed and not assumed.                 *)
(***************************************************************************)
EXTENDS Integers, Sequences, FiniteSets, TLC

VARIABLES
    \* ---- rrParseGdbCommand ----
    line,        \* the argument of rrParseGdbCommand
    parsePc,     \* "call" | "ret"
    parseRes,    \* the rrInit value returned
    \* ---- safeRemoveAll ----
    disk,        \* [exists |-> the directory exists, names |-> entries on disk]
    order,       \* the order in which Readdir lists the original entries
    fis,         \* the local fis of safeRemoveAll
    rmPc,        \* position inside safeRemoveAll
    rmI,         \* index of the removal loop
    rmErr,       \* which call of safeRemoveAll returned an error ("none" if none)
    \* ---- RecordAsync / openRedirects ----
    redirects,   \* proc.Redirect: [Mode, Paths, WriterFiles]
    quiet,       \* the quiet argument
    recPc,       \* "call" | "returned" | "error"
    recErr,      \* the error RecordAsync returned
    openFds,     \* the file handles open in this process
    closeCount,  \* number of Close calls made on each handle
    closefn,     \* the closefn openRedirects returned: [isNil, toclose]
    cmdStdio,    \* rrcmd.Stdin, rrcmd.Stdout, rrcmd.Stderr
    process,     \* rrcmd.Process: "nil" | "proc"
    child,       \* the rr subprocess: [state, wfd, exit, signalled]
    pipeBuf,     \* what has been written to the trace-dir pipe
    drainPc,     \* the goroutine of RecordAsync: "none" | "read" | "send" | "done"
    bs,          \* the bytes ioutil.ReadAll returned
    runPc,       \* position inside run()
    runErr,      \* err of rrcmd.Run()
    runRet,      \* what run() returned
    stopCount,   \* number of stop() calls made
    stopRet,     \* what the last stop() returned
    crashed,     \* a nil dereference has brought the program down
    \* ---- Replay / rrStderrParser ----
    replayArgs,  \* [quiet, deleteOnDetach]
    stream,      \* the chunks rr replay writes to its stderr, in order
    written,     \* how many of them it has written
    pipe,        \* the StderrPipe: [buf, wclosed, rclosed]
    rrProc,      \* the rr replay subprocess: "none" | "running" | "exited" | "killed"
    killCount,   \* number of rrcmd.Process.Kill() calls
    replayPc,    \* position inside Replay
    replayRet,   \* what Replay returned: [tgt, err, onDetach]
    scanPc,      \* position inside rrStderrParser
    scanMsg,     \* the rrInit rrStderrParser is about to send
    scanFrom,    \* which branch of the loop produced it: "cmd" | "err"
    initch,      \* the channel: [sends, closed]
    init,        \* the rrInit Replay received
    osStderr,    \* the lines written to os.Stderr
    \* ---- checkRRAvailable ----
    availEnv,    \* what exec.LookPath and ioutil.ReadFile find
    availPc,     \* "call" | "ret"
    availRes,    \* the error checkRRAvailable returned
    \* ---- SubstitutePath.UnmarshalJSON ----
    substData,   \* the JSON value handed to UnmarshalJSON
    substM,      \* the SubstitutePath *m points to
    substPc,     \* "call" | "ret"
    substErr,    \* the error UnmarshalJSON returned
    \* ---- further invocations of run() on the same session ----
    xrunPc,      \* position of each further invocation of run()
    xrunErr,     \* its local err
    xrunRet,     \* what it returned
    \* ---- RecordAndReplay ----
    rrPc,        \* "call" | "record" | "replay" | "ret"
    rrTracedir,  \* the local tracedir of RecordAndReplay
    rrRet        \* what RecordAndReplay returned

parseVars == <<line, parsePc, parseRes>>
rmVars == <<disk, order, fis, rmPc, rmI, rmErr>>
recVars == <<redirects, quiet, recPc, recErr, openFds, closeCount, closefn, cmdStdio,
             process, child, pipeBuf, drainPc, bs, runPc, runErr, runRet,
             stopCount, stopRet, crashed>>
replayVars == <<replayArgs, stream, written, pipe, rrProc, killCount, replayPc, replayRet,
                scanPc, scanMsg, scanFrom, initch, init, osStderr>>
availVars == <<availEnv, availPc, availRes>>
substVars == <<substData, substM, substPc, substErr>>
runsVars == <<xrunPc, xrunErr, xrunRet>>
rrVars == <<rrPc, rrTracedir, rrRet>>
vars == <<parseVars, rmVars, recVars, replayVars, availVars, substVars, runsVars, rrVars>>
notParse == <<rmVars, recVars, replayVars, availVars, substVars, runsVars, rrVars>>
notRm == <<parseVars, recVars, replayVars, availVars, substVars, runsVars, rrVars>>
notRec == <<parseVars, rmVars, replayVars, availVars, substVars, runsVars, rrVars>>
notReplay == <<parseVars, rmVars, recVars, availVars, substVars, runsVars, rrVars>>
notAvail == <<parseVars, rmVars, recVars, replayVars, substVars, runsVars, rrVars>>
notSubst == <<parseVars, rmVars, recVars, replayVars, availVars, runsVars, rrVars>>

\* ------------------------------------------------------------------------
\* Bounds
\* ------------------------------------------------------------------------
MaxFields == 5      \* words per command line
MaxEntries == 3     \* entries of the trace directory
MaxStops == 2       \* calls of stop() on one session
MaxChunks == 3      \* chunks rr replay writes to its stderr
MaxExtraRuns == 1   \* invocations of run() beyond the first

\* ------------------------------------------------------------------------
\* Strings
\* ------------------------------------------------------------------------
Last(s) == s[Len(s)]

HasPrefix(s, p) == Len(s) >= Len(p) /\ SubSeq(s, 1, Len(p)) = p

TrimPrefixLen(s, n) == SubSeq(s, n + 1, Len(s))

IsSpace(c) == c \in {" ", "\n", "\t", "\r"}

\* ------------------------------------------------------------------------
\* rrParseGdbCommand
\* ------------------------------------------------------------------------
targetCmd == <<"t", "a", "r", "g", "e", "t", " ", "e", "x", "t", "e", "n", "d", "e", "d", "-", "r", "e", "m", "o", "t", "e", " ">>

FlagEx == <<"-", "e", "x">>
FlagL == <<"-", "l">>

\* config.SplitQuotedFields(line, '\''): whitespace separates fields, a
\* single-quoted span belongs to one field with its spaces preserved.
RECURSIVE SplitFrom(_, _, _, _, _)
SplitFrom(in, i, state, buf, r) ==
    IF i > Len(in)
    THEN IF Len(buf) # 0 THEN Append(r, buf) ELSE r
    ELSE LET ch == in[i] IN
         CASE state = "inSpace" ->
                IF ch = "'" THEN SplitFrom(in, i + 1, "inQuote", buf, r)
                ELSE IF ~IsSpace(ch) THEN SplitFrom(in, i + 1, "inField", Append(buf, ch), r)
                ELSE SplitFrom(in, i + 1, "inSpace", buf, r)
           [] state = "inField" ->
                IF ch = "'" THEN SplitFrom(in, i + 1, "inQuote", buf, r)
                ELSE IF IsSpace(ch) THEN SplitFrom(in, i + 1, "inSpace", <<>>, Append(r, buf))
                ELSE SplitFrom(in, i + 1, "inField", Append(buf, ch), r)
           [] state = "inQuote" ->
                IF ch = "'" THEN SplitFrom(in, i + 1, "inField", buf, r)
                ELSE SplitFrom(in, i + 1, "inQuote", Append(buf, ch), r)

SplitQuotedFields(in) == SplitFrom(in, 1, "inSpace", <<>>, <<>>)

ErrNil == [isNil |-> TRUE, line |-> <<>>, reason |-> ""]

ErrMalformedRRGdbCommand(ln, reason) == [isNil |-> FALSE, line |-> ln, reason |-> reason]

rrInit(port, exe, err) == [port |-> port, exe |-> exe, err |-> err]

\* The index the loop examines after a `-ex` at index i: the argument is
\* skipped (i++ and the loop's own i++) only when it carries the target
\* command; otherwise `continue` leaves only the loop's own i++.
NextIndexEx(i, isTarget) == IF isTarget THEN i + 2 ELSE i + 1

\* The index the loop examines after a `-l` at index i.
NextIndexL(i) == i + 2

LastField_Mut(fields) == fields[1]
\* exe := fields[len(fields)-1]
LastField(fields) == fields[Len(fields)]

\* The scanning loop; i is the 1-based index. The result is the port found,
\* or the error of the early return.
RECURSIVE ScanFields(_, _, _, _)
ScanFields(ln, fields, i, port) ==
    IF i > Len(fields)
    THEN [early |-> FALSE, port |-> port, err |-> ErrNil]
    ELSE CASE fields[i] = FlagEx ->
                IF i + 1 > Len(fields)
                THEN [early |-> TRUE, port |-> <<>>,
                      err |-> ErrMalformedRRGdbCommand(ln, "-ex not followed by an argument")]
                ELSE LET arg == fields[i + 1]
                         isTarget == HasPrefix(arg, targetCmd)
                     IN  ScanFields(ln, fields, NextIndexEx(i, isTarget),
                                    IF isTarget THEN TrimPrefixLen(arg, Len(targetCmd)) ELSE port)
           [] fields[i] = FlagL -> ScanFields(ln, fields, NextIndexL(i), port)
           [] OTHER -> ScanFields(ln, fields, i + 1, port)

NoPortLine_Mut(ln) == SubSeq(ln, 1, Len(ln) - 1)
\* the line stored in the error of the final `port == ""` test
NoPortLine(ln) == ln

rrParseGdbCommand(ln) ==
    LET fields == SplitQuotedFields(ln)
        s == ScanFields(ln, fields, 1, <<>>)
    IN  IF s.early THEN rrInit(<<>>, <<>>, s.err)
        ELSE IF s.port = <<>>
             THEN rrInit(<<>>, <<>>, ErrMalformedRRGdbCommand(NoPortLine(ln), "could not find -ex argument"))
             ELSE rrInit(s.port, LastField(fields), ErrNil)

\* The words command lines are built from, as they appear in the text.
WordEx == FlagEx
WordL == FlagL
WordTarget == <<"'", "t", "a", "r", "g", "e", "t", " ", "e", "x", "t", "e", "n", "d", "e", "d", "-", "r", "e", "m", "o", "t", "e", " ", "9", "'">>
WordTargetNoPort == <<"'", "t", "a", "r", "g", "e", "t", " ", "e", "x", "t", "e", "n", "d", "e", "d", "-", "r", "e", "m", "o", "t", "e", " ", "'">>
WordPlain == <<"a">>
WordQuoted == <<"'", "s", " ", "/", "'">>

Words == {WordEx, WordL, WordTarget, WordTargetNoPort, WordPlain, WordQuoted}

RECURSIVE JoinWords(_)
JoinWords(ws) ==
    IF Len(ws) = 0 THEN <<>>
    ELSE IF Len(ws) = 1 THEN ws[1]
    ELSE ws[1] \o <<" ">> \o JoinWords(Tail(ws))

Lines ==
    { JoinWords(ws) \o nl :
        ws \in UNION { [1..n -> Words] : n \in 0..MaxFields },
        nl \in {<<>>, <<"\n">>} }

ParseIdle ==
    /\ line = <<>>
    /\ parsePc = "idle"
    /\ parseRes = rrInit(<<>>, <<>>, ErrNil)

ParseInit ==
    /\ line \in Lines
    /\ parsePc = "call"
    /\ parseRes = rrInit(<<>>, <<>>, ErrNil)

ParseCmd ==
    /\ parsePc = "call"
    /\ parseRes' = rrParseGdbCommand(line)
    /\ parsePc' = "ret"
    /\ UNCHANGED <<line, notParse>>

\* ------------------------------------------------------------------------
\* safeRemoveAll
\* ------------------------------------------------------------------------
FileNames == {"f1", "f2", "f3"}
DirNames == {"d1"}
EntryNames == FileNames \cup DirNames

FileInfo(n) == [name |-> n, isDir |-> n \in DirNames]

\* every listing of at most MaxEntries distinct entries
Listings ==
    { s \in UNION { [1..n -> EntryNames] : n \in 0..MaxEntries } :
        \A i, j \in 1..Len(s) : i # j => s[i] # s[j] }

NamesOf(s) == { s[i] : i \in 1..Len(s) }

HasDir_Mut(fs) == Len(fs) > 0 /\ fs[1].isDir
\* the first loop: some entry is a directory
HasDir(fs) == \E j \in 1..Len(fs) : fs[j].isDir

AfterRemove_Mut(ok, i, n) ==
    IF i = n THEN [pc |-> "rmdir", i |-> i] ELSE [pc |-> "remove", i |-> i + 1]
\* the second loop after os.Remove of entry i of n: an error returns
AfterRemove(ok, i, n) ==
    IF ~ok THEN [pc |-> "ret", i |-> i]
    ELSE IF i = n THEN [pc |-> "rmdir", i |-> i]
    ELSE [pc |-> "remove", i |-> i + 1]

RmIdle ==
    /\ disk = [exists |-> FALSE, names |-> {}]
    /\ order = <<>>
    /\ fis = <<>>
    /\ rmPc = "idle"
    /\ rmI = 0
    /\ rmErr = "none"

RmInit ==
    /\ \E ex \in BOOLEAN, s \in Listings :
          /\ (~ex => s = <<>>)
          /\ disk = [exists |-> ex, names |-> NamesOf(s)]
          /\ order = s
    /\ fis = <<>>
    /\ rmPc = "open"
    /\ rmI = 0
    /\ rmErr = "none"

\* dh, err := os.Open(dir)
RmOpen ==
    /\ rmPc = "open"
    /\ \E ok \in BOOLEAN :
          IF ok /\ disk.exists
          THEN rmPc' = "readdir" /\ rmErr' = rmErr
          ELSE rmPc' = "ret" /\ rmErr' = "open"
    /\ UNCHANGED <<disk, order, fis, rmI, notRm>>

\* fis, err := dh.Readdir(-1)
RmReaddir ==
    /\ rmPc = "readdir"
    /\ \E ok \in BOOLEAN :
          IF ok
          THEN /\ fis' = [j \in 1..Len(order) |-> FileInfo(order[j])]
               /\ rmPc' = "check"
               /\ rmErr' = rmErr
          ELSE /\ fis' = fis
               /\ rmPc' = "ret"
               /\ rmErr' = "readdir"
    /\ UNCHANGED <<disk, order, rmI, notRm>>

\* for _, fi := range fis { if fi.IsDir() { return } }
RmCheck ==
    /\ rmPc = "check"
    /\ IF HasDir(fis)
       THEN rmPc' = "ret" /\ rmI' = rmI
       ELSE IF Len(fis) = 0
            THEN rmPc' = "rmdir" /\ rmI' = rmI
            ELSE rmPc' = "remove" /\ rmI' = 1
    /\ UNCHANGED <<disk, order, fis, rmErr, notRm>>

\* one iteration of the second loop: os.Remove(filepath.Join(dir, fi.Name()))
RmRemoveEntry ==
    /\ rmPc = "remove"
    /\ \E ok \in BOOLEAN :
          LET nx == AfterRemove(ok, rmI, Len(fis)) IN
          /\ disk' = IF ok THEN [disk EXCEPT !.names = @ \ {fis[rmI].name}] ELSE disk
          /\ rmErr' = IF ok THEN rmErr ELSE "remove"
          /\ rmPc' = nx.pc
          /\ rmI' = nx.i
    /\ UNCHANGED <<order, fis, notRm>>

\* os.Remove(dir): removes the directory when it is empty
RmRemoveDir ==
    /\ rmPc = "rmdir"
    /\ \E ok \in BOOLEAN :
          IF ok /\ disk.names = {}
          THEN disk' = [disk EXCEPT !.exists = FALSE] /\ rmErr' = rmErr
          ELSE disk' = disk /\ rmErr' = "rmdir"
    /\ rmPc' = "ret"
    /\ UNCHANGED <<order, fis, rmI, notRm>>

\* ------------------------------------------------------------------------
\* checkRRAvailable
\* ------------------------------------------------------------------------
RECURSIVE TrimLeft(_)
TrimLeft(t) == IF Len(t) > 0 /\ IsSpace(t[1]) THEN TrimLeft(Tail(t)) ELSE t

RECURSIVE TrimRight(_)
TrimRight(t) ==
    IF Len(t) > 0 /\ IsSpace(t[Len(t)]) THEN TrimRight(SubSeq(t, 1, Len(t) - 1)) ELSE t

\* strings.TrimSpace
TrimSpace(t) == TrimRight(TrimLeft(t))

Digits == <<"0", "1", "2", "3", "4", "5", "6", "7", "8", "9">>
IsDigit(c) == \E d \in 1..10 : Digits[d] = c
DigitVal(c) == (CHOOSE d \in 1..10 : Digits[d] = c) - 1

\* the largest int; an int is taken to be 32 bits wide (with 64 bits the
\* largest is 2^63 - 1, and the texts that overflow below overflow there too)
MaxInt == 2147483647
MinInt == 0 - MaxInt - 1

\* the value of the decimal digits t added to acc, MaxInt + 1 standing for
\* every value out of range
RECURSIVE DecVal(_, _)
DecVal(t, acc) ==
    IF Len(t) = 0 THEN acc
    ELSE IF acc > (MaxInt - DigitVal(t[1])) \div 10 THEN -1
    ELSE DecVal(Tail(t), acc * 10 + DigitVal(t[1]))

\* strconv.Atoi with its error dropped: 0 when t is not a decimal integer,
\* the nearest int when t is a decimal integer out of the range of int
Atoi(t) ==
    LET signed == Len(t) > 0 /\ t[1] \in {"-", "+"}
        neg == signed /\ t[1] = "-"
        ds == IF signed THEN Tail(t) ELSE t
    IN  IF Len(ds) = 0 \/ \E j \in 1..Len(ds) : ~IsDigit(ds[j]) THEN 0
        ELSE IF DecVal(ds, 0) = -1 THEN (IF neg THEN MinInt ELSE MaxInt)
        ELSE IF neg THEN 0 - DecVal(ds, 0) ELSE DecVal(ds, 0)

ErrorNil == [kind |-> "nil", actual |-> 0]
ErrBackendUnavailable == [kind |-> "ErrBackendUnavailable", actual |-> 0]
ErrPerfEventParanoid(n) == [kind |-> "ErrPerfEventParanoid", actual |-> n]
ErrOther(k) == [kind |-> k, actual |-> 0]

TooParanoid_Mut(n) == n > 0
\* perfEventParanoid > 1
TooParanoid(n) == n > 1

\* env: [lookPath |-> rr is on the search path, readOk |-> the pseudo-file
\* can be read, buf |-> its content]
checkRRAvailable(env) ==
    IF ~env.lookPath THEN ErrBackendUnavailable
    ELSE IF env.readOk /\ TooParanoid(Atoi(TrimSpace(env.buf)))
         THEN ErrPerfEventParanoid(Atoi(TrimSpace(env.buf)))
         ELSE ErrorNil

\* twenty nines: a decimal integer out of the range of int
Nines == [i \in 1..20 |-> "9"]

\* contents of /proc/sys/kernel/perf_event_paranoid
ParanoidTexts ==
    { <<"1", "\n">>, <<"2", "\n">>, <<"-", "1", "\n">>, <<"1", "2">>, <<"x", "\n">>,
      <<>>, <<"0", "\n">>, <<" ", "3", " ", "\n">>, <<"+", "2">>, <<"2", "x", "\n">>,
      <<"-">>, <<"4", "\n">>, <<"2", " ", "2", "\n">>, Nines, <<"-">> \o Nines }

AvailEnvs ==
    { [lookPath |-> lp, readOk |-> ro, buf |-> b] :
        lp \in BOOLEAN, ro \in BOOLEAN, b \in ParanoidTexts }

AvailIdle ==
    /\ availEnv = [lookPath |-> FALSE, readOk |-> FALSE, buf |-> <<>>]
    /\ availPc = "idle"
    /\ availRes = ErrorNil

AvailInit ==
    /\ availEnv \in AvailEnvs
    /\ availPc = "call"
    /\ availRes = ErrorNil

CheckAvail ==
    /\ availPc = "call"
    /\ availRes' = checkRRAvailable(availEnv)
    /\ availPc' = "ret"
    /\ UNCHANGED <<availEnv, notAvail>>

\* ------------------------------------------------------------------------
\* openRedirects
\* ------------------------------------------------------------------------
RedirectFileMode == "RedirectFileMode"
RedirectPathMode == "RedirectPathMode"

\* a path is empty, can be opened, or cannot be opened
PathKinds == {"", "ok", "bad"}

\* the handles the three paths open
PathFiles == <<"stdinFile", "stdoutFile", "stderrFile">>
PathFileSet == {"stdinFile", "stdoutFile", "stderrFile"}
CallerFiles == {"w0", "w1", "w2"}
StdFiles == {"os.Stdin", "os.Stdout", "os.Stderr"}
Handles == PathFileSet \cup CallerFiles \cup StdFiles \cup {"rfd", "wfd"}

ClosefnNil == [isNil |-> TRUE, toclose |-> <<>>]
Closefn(tc) == [isNil |-> FALSE, toclose |-> tc]

\* what openRedirects returns on an error of os.Open / os.Create: every
\* result is nil, closefn included; opened are the handles still open
OpenFailed(opened) ==
    [stdin |-> "nil", stdout |-> "nil", stderr |-> "nil",
     closefn |-> ClosefnNil, err |-> ErrOther("open"), opened |-> opened]

FileModeToclose_Mut(rd) == <<rd.WriterFiles[2], rd.WriterFiles[3]>>
\* toclose in RedirectFileMode: nothing is appended to it
FileModeToclose(rd) == <<>>

Track_Mut(tc, f) == tc
\* toclose = append(toclose, f)
Track(tc, f) == Append(tc, f)

openRedirects(rd, q) ==
    IF rd.Mode = RedirectFileMode
    THEN [stdin |-> IF rd.WriterFiles[1] = "nil" THEN "os.Stdin" ELSE rd.WriterFiles[1],
          stdout |-> rd.WriterFiles[2],
          stderr |-> rd.WriterFiles[3],
          closefn |-> Closefn(FileModeToclose(rd)), err |-> ErrorNil, opened |-> <<>>]
    ELSE IF rd.Paths[1] = "bad" THEN OpenFailed(<<>>)
    ELSE LET stdin == IF rd.Paths[1] # "" THEN PathFiles[1]
                      ELSE IF q THEN "os.Stdin" ELSE "nil"
             op1 == IF rd.Paths[1] # "" THEN <<PathFiles[1]>> ELSE <<>>
             tc1 == IF rd.Paths[1] # "" THEN Track(<<>>, PathFiles[1]) ELSE <<>>
         IN  IF rd.Paths[2] = "bad" THEN OpenFailed(op1)
             ELSE LET stdout == IF rd.Paths[2] = "" THEN "os.Stdout" ELSE PathFiles[2]
                      op2 == IF rd.Paths[2] = "" THEN op1 ELSE Append(op1, PathFiles[2])
                      tc2 == IF rd.Paths[2] = "" THEN tc1 ELSE Track(tc1, PathFiles[2])
                  IN  IF rd.Paths[3] = "bad" THEN OpenFailed(op2)
                      ELSE LET stderr == IF rd.Paths[3] = "" THEN "os.Stderr" ELSE PathFiles[3]
                               op3 == IF rd.Paths[3] = "" THEN op2 ELSE Append(op2, PathFiles[3])
                               tc3 == IF rd.Paths[3] = "" THEN tc2 ELSE Track(tc2, PathFiles[3])
                           IN  [stdin |-> stdin, stdout |-> stdout, stderr |-> stderr,
                                closefn |-> Closefn(tc3), err |-> ErrorNil, opened |-> op3]

\* ------------------------------------------------------------------------
\* RecordAsync: run, stop and the goroutine draining the pipe
\* ------------------------------------------------------------------------
\* what rr writes to the descriptor of --print-trace-dir
TraceDirTexts == { <<"/", "t", "\n">>, <<"\n">> }

ChildNone == [state |-> "none", wfd |-> FALSE, exit |-> "nil", signalled |-> FALSE]

RedirectSpecs ==
    { [Mode |-> RedirectPathMode, Paths |-> ps, WriterFiles |-> <<"nil", "nil", "nil">>] :
        ps \in [1..3 -> PathKinds] }
    \cup
    { [Mode |-> RedirectFileMode, Paths |-> <<"", "", "">>, WriterFiles |-> <<w, "w1", "w2">>] :
        w \in {"nil", "w0"} }

RecIdle ==
    /\ redirects = [Mode |-> RedirectPathMode, Paths |-> <<"", "", "">>,
                    WriterFiles |-> <<"nil", "nil", "nil">>]
    /\ quiet = FALSE
    /\ recPc = "idle"
    /\ recErr = ErrorNil
    /\ openFds = StdFiles
    /\ closeCount = [h \in Handles |-> 0]
    /\ closefn = ClosefnNil
    /\ cmdStdio = <<"nil", "nil", "nil">>
    /\ process = "nil"
    /\ child = ChildNone
    /\ pipeBuf = <<>>
    /\ drainPc = "none"
    /\ bs = <<>>
    /\ runPc = "idle"
    /\ runErr = "nil"
    /\ runRet = [tracedir |-> <<>>, err |-> "nil"]
    /\ stopCount = 0
    /\ stopRet = "none"
    /\ crashed = FALSE

RecInit ==
    /\ redirects \in RedirectSpecs
    /\ quiet \in BOOLEAN
    /\ recPc = "call"
    /\ recErr = ErrorNil
    /\ openFds = StdFiles \cup ({ redirects.WriterFiles[k] : k \in 1..3 } \ {"nil"})
    /\ closeCount = [h \in Handles |-> 0]
    /\ closefn = ClosefnNil
    /\ cmdStdio = <<"nil", "nil", "nil">>
    /\ process = "nil"
    /\ child = ChildNone
    /\ pipeBuf = <<>>
    /\ drainPc = "none"
    /\ bs = <<>>
    /\ runPc = "idle"
    /\ runErr = "nil"
    /\ runRet = [tracedir |-> <<>>, err |-> "nil"]
    /\ stopCount = 0
    /\ stopRet = "none"
    /\ crashed = FALSE

\* RecordAsync up to its return; env and pipeOk are the outcomes of
\* checkRRAvailable's lookups and of os.Pipe
RecordAsync ==
    /\ recPc = "call"
    /\ ~crashed
    /\ \E env \in AvailEnvs, pipeOk \in BOOLEAN :
          LET avail == checkRRAvailable(env)
              r == openRedirects(redirects, quiet)
          IN  IF avail # ErrorNil
              THEN /\ recPc' = "error"
                   /\ recErr' = avail
                   /\ UNCHANGED <<openFds, closefn, cmdStdio, drainPc>>
              ELSE IF ~pipeOk
              THEN /\ recPc' = "error"
                   /\ recErr' = ErrOther("pipe")
                   /\ UNCHANGED <<openFds, closefn, cmdStdio, drainPc>>
              ELSE IF r.err # ErrorNil
              THEN /\ recPc' = "error"
                   /\ recErr' = r.err
                   /\ openFds' = openFds \cup {"rfd", "wfd"} \cup NamesOf(r.opened)
                   /\ closefn' = r.closefn
                   /\ UNCHANGED <<cmdStdio, drainPc>>
              ELSE /\ recPc' = "returned"
                   /\ recErr' = ErrorNil
                   /\ openFds' = openFds \cup {"rfd", "wfd"} \cup NamesOf(r.opened)
                   /\ closefn' = r.closefn
                   /\ cmdStdio' = <<r.stdin, r.stdout, r.stderr>>
                   /\ drainPc' = "read"
    /\ UNCHANGED <<redirects, quiet, closeCount, process, child, pipeBuf, bs,
                   runPc, runErr, runRet, stopCount, stopRet, crashed, notRec>>

\* the caller invokes run()
RunCall ==
    /\ recPc = "returned"
    /\ runPc = "idle"
    /\ ~crashed
    /\ runPc' = "start"
    /\ UNCHANGED <<redirects, quiet, recPc, recErr, openFds, closeCount, closefn, cmdStdio,
                   process, child, pipeBuf, drainPc, bs, runErr, runRet,
                   stopCount, stopRet, crashed, notRec>>

AfterStartPc_Mut(ok) == "closefn"
\* rrcmd.Run() is Start followed, when Start succeeded, by Wait
AfterStartPc(ok) == IF ok THEN "wait" ELSE "closefn"

\* rrcmd.Run(), first half: Start; the child inherits the write end (a
\* closed file in ExtraFiles leaves the descriptor closed in the child).
\* Start on a command whose Process is set returns "exec: already started"
RunStart ==
    /\ runPc = "start"
    /\ ~crashed
    /\ IF process # "nil"
       THEN /\ runErr' = "exec: already started"
            /\ runPc' = "closefn"
            /\ UNCHANGED <<process, child>>
       ELSE \E ok \in BOOLEAN :
            /\ runPc' = AfterStartPc(ok)
            /\ IF ok
               THEN /\ process' = "proc"
                    /\ child' = [child EXCEPT !.state = "running",
                                               !.wfd = "wfd" \in openFds]
                    /\ runErr' = runErr
               ELSE /\ runErr' = "start"
                    /\ UNCHANGED <<process, child>>
    /\ UNCHANGED <<redirects, quiet, recPc, recErr, openFds, closeCount, closefn, cmdStdio,
                   pipeBuf, drainPc, bs, runRet, stopCount, stopRet, crashed, notRec>>

\* rr prints the trace directory to the inherited descriptor
ChildWrite ==
    /\ child.state = "running"
    /\ child.wfd
    /\ pipeBuf = <<>>
    /\ ~crashed
    /\ \E txt \in TraceDirTexts : pipeBuf' = txt
    /\ UNCHANGED <<redirects, quiet, recPc, recErr, openFds, closeCount, closefn, cmdStdio,
                   process, child, drainPc, bs, runPc, runErr, runRet,
                   stopCount, stopRet, crashed, notRec>>

\* the subprocess exits; its copy of the write end is closed with it
ChildExit ==
    /\ child.state = "running"
    /\ ~crashed
    /\ \E e \in {"nil", "exit"} :
          child' = [child EXCEPT !.state = "exited", !.wfd = FALSE, !.exit = e]
    /\ UNCHANGED <<redirects, quiet, recPc, recErr, openFds, closeCount, closefn, cmdStdio,
                   process, pipeBuf, drainPc, bs, runPc, runErr, runRet,
                   stopCount, stopRet, crashed, notRec>>

\* rrcmd.Run(), second half: Wait returns when the subprocess has exited
RunWait ==
    /\ runPc = "wait"
    /\ child.state = "exited"
    /\ ~crashed
    /\ runErr' = child.exit
    /\ runPc' = "closefn"
    /\ UNCHANGED <<redirects, quiet, recPc, recErr, openFds, closeCount, closefn, cmdStdio,
                   process, child, pipeBuf, drainPc, bs, runRet,
                   stopCount, stopRet, crashed, notRec>>

\* closefn(): Close on every file of toclose
RunClosefn ==
    /\ runPc = "closefn"
    /\ ~crashed
    /\ openFds' = openFds \ NamesOf(closefn.toclose)
    /\ closeCount' = [h \in Handles |->
                        IF h \in NamesOf(closefn.toclose) THEN closeCount[h] + 1
                        ELSE closeCount[h]]
    /\ runPc' = "closewfd"
    /\ UNCHANGED <<redirects, quiet, recPc, recErr, closefn, cmdStdio,
                   process, child, pipeBuf, drainPc, bs, runErr, runRet,
                   stopCount, stopRet, crashed, notRec>>

AfterWfdClose_Mut(fds) == fds
\* _ = wfd.Close()
AfterWfdClose(fds) == fds \ {"wfd"}

RunCloseWfd ==
    /\ runPc = "closewfd"
    /\ ~crashed
    /\ openFds' = AfterWfdClose(openFds)
    /\ closeCount' = [closeCount EXCEPT !["wfd"] = @ + 1]
    /\ runPc' = "recv"
    /\ UNCHANGED <<redirects, quiet, recPc, recErr, closefn, cmdStdio,
                   process, child, pipeBuf, drainPc, bs, runErr, runRet,
                   stopCount, stopRet, crashed, notRec>>

\* ioutil.ReadAll(rfd) returns at EOF: no copy of the write end is open
DrainEOF ==
    /\ drainPc = "read"
    /\ ~crashed
    /\ "wfd" \notin openFds
    /\ ~child.wfd
    /\ bs' = pipeBuf
    /\ drainPc' = "send"
    /\ UNCHANGED <<redirects, quiet, recPc, recErr, openFds, closeCount, closefn, cmdStdio,
                   process, child, pipeBuf, runPc, runErr, runRet,
                   stopCount, stopRet, crashed, notRec>>

DrainAfterSend_Mut == "send"
\* the goroutine ends after its single send
DrainAfterSend == "done"

\* tracedirChan is unbuffered: the send of the goroutine and the receive of
\* run() happen together; run() returns
TracedirHandoff ==
    /\ drainPc = "send"
    /\ runPc = "recv"
    /\ ~crashed
    /\ runRet' = [tracedir |-> TrimSpace(bs), err |-> runErr]
    /\ drainPc' = DrainAfterSend
    /\ runPc' = "ret"
    /\ UNCHANGED <<redirects, quiet, recPc, recErr, openFds, closeCount, closefn, cmdStdio,
                   process, child, pipeBuf, bs, runErr,
                   stopCount, stopRet, crashed, notRec>>

\* stop(): rrcmd.Process.Signal(SIGTERM); rrcmd.Process is nil until Start
\* has succeeded, and the method dereferences it
Stop ==
    /\ recPc = "returned"
    /\ ~crashed
    /\ stopCount < MaxStops
    /\ stopCount' = stopCount + 1
    /\ IF process = "nil"
       THEN /\ crashed' = TRUE
            /\ UNCHANGED <<child, stopRet>>
       ELSE /\ crashed' = FALSE
            /\ IF child.state = "running"
               THEN child' = [child EXCEPT !.signalled = TRUE] /\ stopRet' = "nil"
               ELSE child' = child /\ stopRet' = "os: process already finished"
    /\ UNCHANGED <<redirects, quiet, recPc, recErr, openFds, closeCount, closefn, cmdStdio,
                   process, pipeBuf, drainPc, bs, runPc, runErr, runRet, notRec>>

\* ------------------------------------------------------------------------
\* Further invocations of the run closure of one session
\* ------------------------------------------------------------------------
ExtraRuns == 1..MaxExtraRuns

RunsIdle ==
    /\ xrunPc = [i \in ExtraRuns |-> "idle"]
    /\ xrunErr = [i \in ExtraRuns |-> "nil"]
    /\ xrunRet = [i \in ExtraRuns |-> [tracedir |-> <<>>, err |-> "nil"]]

notRecRuns == <<parseVars, rmVars, replayVars, availVars, substVars, rrVars>>
notRR == <<parseVars, rmVars, recVars, replayVars, availVars, substVars, runsVars>>
recOnly == <<redirects, quiet, recPc, recErr, closefn, cmdStdio, pipeBuf, bs,
             runPc, runErr, runRet, stopCount, stopRet, crashed>>

\* the caller invokes run() again, after or while another invocation runs
XRunCall(i) ==
    /\ recPc = "returned"
    /\ xrunPc[i] = "idle"
    /\ ~crashed
    /\ xrunPc' = [xrunPc EXCEPT ![i] = "start"]
    /\ UNCHANGED <<xrunErr, xrunRet, recVars, notRecRuns>>

XRunStart(i) ==
    /\ xrunPc[i] = "start"
    /\ ~crashed
    /\ IF process # "nil"
       THEN /\ xrunErr' = [xrunErr EXCEPT ![i] = "exec: already started"]
            /\ xrunPc' = [xrunPc EXCEPT ![i] = "closefn"]
            /\ UNCHANGED <<process, child>>
       ELSE \E ok \in BOOLEAN :
            /\ xrunPc' = [xrunPc EXCEPT ![i] = AfterStartPc(ok)]
            /\ IF ok
               THEN /\ process' = "proc"
                    /\ child' = [child EXCEPT !.state = "running",
                                               !.wfd = "wfd" \in openFds]
                    /\ xrunErr' = xrunErr
               ELSE /\ xrunErr' = [xrunErr EXCEPT ![i] = "start"]
                    /\ UNCHANGED <<process, child>>
    /\ UNCHANGED <<xrunRet, recOnly, openFds, closeCount, drainPc, notRecRuns>>

XRunWait(i) ==
    /\ xrunPc[i] = "wait"
    /\ child.state = "exited"
    /\ ~crashed
    /\ xrunErr' = [xrunErr EXCEPT ![i] = child.exit]
    /\ xrunPc' = [xrunPc EXCEPT ![i] = "closefn"]
    /\ UNCHANGED <<xrunRet, recVars, notRecRuns>>

XRunClosefn(i) ==
    /\ xrunPc[i] = "closefn"
    /\ ~crashed
    /\ openFds' = openFds \ NamesOf(closefn.toclose)
    /\ closeCount' = [h \in Handles |->
                        IF h \in NamesOf(closefn.toclose) THEN closeCount[h] + 1
                        ELSE closeCount[h]]
    /\ xrunPc' = [xrunPc EXCEPT ![i] = "closewfd"]
    /\ UNCHANGED <<xrunErr, xrunRet, recOnly, process, child, drainPc, notRecRuns>>

XRunCloseWfd(i) ==
    /\ xrunPc[i] = "closewfd"
    /\ ~crashed
    /\ openFds' = AfterWfdClose(openFds)
    /\ closeCount' = [closeCount EXCEPT !["wfd"] = @ + 1]
    /\ xrunPc' = [xrunPc EXCEPT ![i] = "recv"]
    /\ UNCHANGED <<xrunErr, xrunRet, recOnly, process, child, drainPc, notRecRuns>>

XTracedirHandoff(i) ==
    /\ drainPc = "send"
    /\ xrunPc[i] = "recv"
    /\ ~crashed
    /\ xrunRet' = [xrunRet EXCEPT ![i] = [tracedir |-> TrimSpace(bs), err |-> xrunErr[i]]]
    /\ drainPc' = DrainAfterSend
    /\ xrunPc' = [xrunPc EXCEPT ![i] = "ret"]
    /\ UNCHANGED <<xrunErr, recOnly, openFds, closeCount, process, child, notRecRuns>>

\* ------------------------------------------------------------------------
\* Replay and rrStderrParser
\* ------------------------------------------------------------------------
rrGdbCommandPrefix == <<" ", " ", "g", "d", "b", " ">>
rrGdbLaunchPrefix == <<"L", "a", "u", "n", "c", "h", " ", "g", "d", "b", " ", "w", "i", "t", "h">>

ChunkLaunch == <<"L", "a", "u", "n", "c", "h", " ", "g", "d", "b", " ", "w", "i", "t", "h", "\n">>
ChunkGdb == <<" ", " ", "g", "d", "b", " ", "-", "e", "x", " ", "'", "t", "a", "r", "g", "e", "t", " ", "e", "x", "t", "e", "n", "d", "e", "d", "-", "r", "e", "m", "o", "t", "e", " ", "9", "'", " ", "a", "\n">>
ChunkGdbBad == <<" ", " ", "g", "d", "b", " ", "a", "\n">>
ChunkOther == <<"x", "\n">>
ChunkPartial == <<" ", " ", "g", "d", "b", " ", "-", "e", "x">>

Chunks == {ChunkLaunch, ChunkGdb, ChunkGdbBad, ChunkOther, ChunkPartial}

Streams == UNION { [1..n -> Chunks] : n \in 0..MaxChunks }

\* index of the first "\n" of t, 0 when there is none
NewlineAt(t) ==
    IF \E j \in 1..Len(t) : t[j] = "\n"
    THEN CHOOSE j \in 1..Len(t) : t[j] = "\n" /\ \A k \in 1..(j - 1) : t[k] # "\n"
    ELSE 0

ReadErr(reason) == [isNil |-> FALSE, line |-> <<>>, reason |-> reason]

PipeInit == [buf |-> <<>>, wclosed |-> FALSE, rclosed |-> FALSE]

ReplayIdle ==
    /\ replayArgs = [quiet |-> FALSE, deleteOnDetach |-> FALSE]
    /\ stream = <<>>
    /\ written = 0
    /\ pipe = PipeInit
    /\ rrProc = "none"
    /\ killCount = 0
    /\ replayPc = "idle"
    /\ replayRet = [tgt |-> FALSE, err |-> ErrorNil, onDetach |-> FALSE]
    /\ scanPc = "none"
    /\ scanMsg = rrInit(<<>>, <<>>, ErrNil)
    /\ scanFrom = "none"
    /\ initch = [sends |-> 0, closed |-> FALSE]
    /\ init = rrInit(<<>>, <<>>, ErrNil)
    /\ osStderr = <<>>

ReplayInit ==
    /\ replayArgs \in [quiet : BOOLEAN, deleteOnDetach : BOOLEAN]
    /\ stream \in Streams
    /\ written = 0
    /\ pipe = PipeInit
    /\ rrProc = "none"
    /\ killCount = 0
    /\ replayPc = "call"
    /\ replayRet = [tgt |-> FALSE, err |-> ErrorNil, onDetach |-> FALSE]
    /\ scanPc = "none"
    /\ scanMsg = rrInit(<<>>, <<>>, ErrNil)
    /\ scanFrom = "none"
    /\ initch = [sends |-> 0, closed |-> FALSE]
    /\ init = rrInit(<<>>, <<>>, ErrNil)
    /\ osStderr = <<>>

\* Replay up to rrcmd.Start(): the availability check, StderrPipe, and the
\* go statement that starts rrStderrParser
ReplayBegin ==
    /\ replayPc = "call"
    /\ \E env \in AvailEnvs, pipeOk \in BOOLEAN :
          LET avail == checkRRAvailable(env) IN
          IF avail # ErrorNil
          THEN /\ replayPc' = "ret"
               /\ replayRet' = [tgt |-> FALSE, err |-> avail, onDetach |-> FALSE]
               /\ scanPc' = scanPc
          ELSE IF ~pipeOk
          THEN /\ replayPc' = "ret"
               /\ replayRet' = [tgt |-> FALSE, err |-> ErrOther("pipe"), onDetach |-> FALSE]
               /\ scanPc' = scanPc
          ELSE /\ replayPc' = "start"
               /\ replayRet' = replayRet
               /\ scanPc' = "read"
    /\ UNCHANGED <<replayArgs, stream, written, pipe, rrProc, killCount,
                   scanMsg, scanFrom, initch, init, osStderr, notReplay>>

\* err = rrcmd.Start(); a failed Start closes both ends of the pipe
ReplayStart ==
    /\ replayPc = "start"
    /\ \E ok \in BOOLEAN :
          IF ok
          THEN /\ rrProc' = "running"
               /\ replayPc' = "recv"
               /\ UNCHANGED <<pipe, replayRet>>
          ELSE /\ pipe' = [pipe EXCEPT !.wclosed = TRUE, !.rclosed = TRUE]
               /\ replayPc' = "ret"
               /\ replayRet' = [tgt |-> FALSE, err |-> ErrOther("start"), onDetach |-> FALSE]
               /\ rrProc' = rrProc
    /\ UNCHANGED <<replayArgs, stream, written, killCount,
                   scanPc, scanMsg, scanFrom, initch, init, osStderr, notReplay>>

\* rr replay writes its next chunk to stderr
RrWrite ==
    /\ rrProc = "running"
    /\ written < Len(stream)
    /\ written' = written + 1
    /\ pipe' = IF pipe.rclosed THEN pipe
               ELSE [pipe EXCEPT !.buf = @ \o stream[written + 1]]
    /\ UNCHANGED <<replayArgs, stream, rrProc, killCount, replayPc, replayRet,
                   scanPc, scanMsg, scanFrom, initch, init, osStderr, notReplay>>

\* rr replay exits; the write end of its stderr is closed
RrExit ==
    /\ rrProc = "running"
    /\ rrProc' = "exited"
    /\ pipe' = [pipe EXCEPT !.wclosed = TRUE]
    /\ UNCHANGED <<replayArgs, stream, written, killCount, replayPc, replayRet,
                   scanPc, scanMsg, scanFrom, initch, init, osStderr, notReplay>>

\* one iteration of the loop of rrStderrParser: rd.ReadString('\n') and the
\* tests on the line; blocks while no line is complete and the pipe is open
ScanRead ==
    /\ scanPc = "read"
    /\ LET nl == NewlineAt(pipe.buf) IN
       IF pipe.rclosed
       THEN /\ scanMsg' = rrInit(<<>>, <<>>, ReadErr("file already closed"))
            /\ scanFrom' = "err"
            /\ scanPc' = "send"
            /\ UNCHANGED <<pipe, osStderr>>
       ELSE IF nl # 0
       THEN LET ln == SubSeq(pipe.buf, 1, nl) IN
            /\ pipe' = [pipe EXCEPT !.buf = SubSeq(pipe.buf, nl + 1, Len(pipe.buf))]
            /\ IF HasPrefix(ln, rrGdbCommandPrefix)
               THEN /\ scanMsg' = rrParseGdbCommand(TrimPrefixLen(ln, Len(rrGdbCommandPrefix)))
                    /\ scanFrom' = "cmd"
                    /\ scanPc' = "send"
                    /\ osStderr' = osStderr
               ELSE /\ UNCHANGED <<scanMsg, scanFrom, scanPc>>
                    /\ osStderr' = IF HasPrefix(ln, rrGdbLaunchPrefix) \/ replayArgs.quiet
                                   THEN osStderr ELSE Append(osStderr, ln)
       ELSE /\ pipe.wclosed
            /\ scanMsg' = rrInit(<<>>, <<>>, ReadErr("EOF"))
            /\ scanFrom' = "err"
            /\ scanPc' = "send"
            /\ pipe' = [pipe EXCEPT !.buf = <<>>]
            /\ osStderr' = osStderr
    /\ UNCHANGED <<replayArgs, stream, written, rrProc, killCount, replayPc, replayRet,
                   initch, init, notReplay>>

\* initch is unbuffered: the send of rrStderrParser and `init := <-initch`
\* of Replay happen together
InitHandoff ==
    /\ scanPc = "send"
    /\ replayPc = "recv"
    /\ init' = scanMsg
    /\ initch' = [initch EXCEPT !.sends = @ + 1]
    /\ scanPc' = "close"
    /\ replayPc' = "gotinit"
    /\ UNCHANGED <<replayArgs, stream, written, pipe, rrProc, killCount, replayRet,
                   scanMsg, scanFrom, osStderr, notReplay>>

AfterClose_Mut(from) == IF from = "cmd" THEN "read" ELSE "done"
\* after close(initch): `break` leaves the loop for io.Copy, `return` ends
\* the function
AfterClose(from) == IF from = "cmd" THEN "copy" ELSE "done"

\* close(initch); on the error branch the function returns and the deferred
\* stderr.Close() runs
ScanClose ==
    /\ scanPc = "close"
    /\ initch' = [initch EXCEPT !.closed = TRUE]
    /\ scanPc' = AfterClose(scanFrom)
    /\ pipe' = IF AfterClose(scanFrom) = "done" THEN [pipe EXCEPT !.rclosed = TRUE] ELSE pipe
    /\ UNCHANGED <<replayArgs, stream, written, rrProc, killCount, replayPc, replayRet,
                   scanMsg, scanFrom, init, osStderr, notReplay>>

\* io.Copy(os.Stderr, rd): passes on what is in the pipe; at EOF the
\* function returns and the deferred stderr.Close() runs
ScanCopy ==
    /\ scanPc = "copy"
    /\ IF Len(pipe.buf) > 0
       THEN /\ osStderr' = Append(osStderr, pipe.buf)
            /\ pipe' = [pipe EXCEPT !.buf = <<>>]
            /\ scanPc' = scanPc
       ELSE /\ pipe.wclosed
            /\ pipe' = [pipe EXCEPT !.rclosed = TRUE]
            /\ scanPc' = "done"
            /\ osStderr' = osStderr
    /\ UNCHANGED <<replayArgs, stream, written, rrProc, killCount, replayPc, replayRet,
                   scanMsg, scanFrom, initch, init, notReplay>>

\* rrcmd.Process.Kill()
Killed(p) == IF p = "running" THEN "killed" ELSE p

KillIssued_Mut(k) == k
\* the number of Kill calls after one more
KillIssued(k) == k + 1

\* Replay after the receive: the test of init.err, newProcess, p.Dial
ReplayFinish ==
    /\ replayPc = "gotinit"
    /\ replayPc' = "ret"
    /\ IF ~init.err.isNil
       THEN /\ rrProc' = Killed(rrProc)
            /\ pipe' = IF rrProc = "running" THEN [pipe EXCEPT !.wclosed = TRUE] ELSE pipe
            /\ killCount' = KillIssued(killCount)
            /\ replayRet' = [tgt |-> FALSE, err |-> ErrOther("init"), onDetach |-> FALSE]
       ELSE \E dialOk \in BOOLEAN :
            IF dialOk
            THEN /\ replayRet' = [tgt |-> TRUE, err |-> ErrorNil,
                                  onDetach |-> replayArgs.deleteOnDetach]
                 /\ UNCHANGED <<rrProc, pipe, killCount>>
            ELSE /\ rrProc' = Killed(rrProc)
                 /\ pipe' = IF rrProc = "running" THEN [pipe EXCEPT !.wclosed = TRUE] ELSE pipe
                 /\ killCount' = KillIssued(killCount)
                 /\ replayRet' = [tgt |-> FALSE, err |-> ErrOther("dial"), onDetach |-> FALSE]
    /\ UNCHANGED <<replayArgs, stream, written, scanPc, scanMsg, scanFrom, initch, init,
                   osStderr, notReplay>>

\* ------------------------------------------------------------------------
\* Record and RecordAndReplay
\* ------------------------------------------------------------------------
\* the error value run() returned
RunError(e) == IF e = "nil" THEN ErrorNil ELSE ErrOther(e)

ShouldReplay_Mut(tracedir, err) == tracedir # <<>> /\ err = ErrorNil
\* tracedir == "" returns early; otherwise Replay is called
ShouldReplay(tracedir, err) == tracedir # <<>>

RRIdle ==
    /\ rrPc = "idle"
    /\ rrTracedir = <<>>
    /\ rrRet = [tgt |-> FALSE, tracedir |-> <<>>, err |-> ErrorNil]

RRInit ==
    /\ rrPc = "call"
    /\ rrTracedir = <<>>
    /\ rrRet = [tgt |-> FALSE, tracedir |-> <<>>, err |-> ErrorNil]

\* the redirects RecordAndReplay is called with
RRRedirects ==
    { rd \in RedirectSpecs :
        \/ rd.Mode = RedirectFileMode
        \/ rd.Paths \in { <<"", "", "">>, <<"", "ok", "">>, <<"", "bad", "">> } }

notRRRec == <<parseVars, rmVars, availVars, substVars, runsVars>>

\* RecordAndReplay calls Record, which calls RecordAsync
RRCall ==
    /\ rrPc = "call"
    /\ rrPc' = "record"
    /\ UNCHANGED <<rrTracedir, rrRet, notRR>>

\* Record returns "" and the error of RecordAsync, and RecordAndReplay
\* returns at its test of tracedir
RRRecordFailed ==
    /\ rrPc = "record"
    /\ recPc = "error"
    /\ rrPc' = "ret"
    /\ rrRet' = [tgt |-> FALSE, tracedir |-> <<>>, err |-> recErr]
    /\ UNCHANGED <<rrTracedir, notRR>>

\* Record returns what run() returned; RecordAndReplay returns at its test
\* of tracedir or calls Replay(tracedir, quiet, true, debugInfoDirs)
RRRecordDone ==
    /\ rrPc = "record"
    /\ runPc = "ret"
    /\ rrTracedir' = runRet.tracedir
    /\ IF ShouldReplay(runRet.tracedir, RunError(runRet.err))
       THEN /\ rrPc' = "replay"
            /\ rrRet' = rrRet
            /\ replayPc' = "call"
            /\ replayArgs' = [quiet |-> quiet, deleteOnDetach |-> TRUE]
            /\ stream' \in Streams
       ELSE /\ rrPc' = "ret"
            /\ rrRet' = [tgt |-> FALSE, tracedir |-> <<>>, err |-> RunError(runRet.err)]
            /\ UNCHANGED <<replayPc, replayArgs, stream>>
    /\ UNCHANGED <<written, pipe, rrProc, killCount, replayRet, scanPc, scanMsg, scanFrom,
                   initch, init, osStderr, recVars, notRRRec>>

\* return t, tracedir, err
RRReplayDone ==
    /\ rrPc = "replay"
    /\ replayPc = "ret"
    /\ rrPc' = "ret"
    /\ rrRet' = [tgt |-> replayRet.tgt, tracedir |-> rrTracedir, err |-> replayRet.err]
    /\ UNCHANGED <<rrTracedir, notRR>>

\* ------------------------------------------------------------------------
\* SubstitutePath.UnmarshalJSON (service/dap)
\* ------------------------------------------------------------------------
\* JSON values of an attribute: absent from the object, null, a string, or
\* a value of another type
JsonAbsent == [t |-> "absent", s |-> ""]
AttrValues ==
    { JsonAbsent, [t |-> "null", s |-> ""], [t |-> "number", s |-> ""],
      [t |-> "string", s |-> ""], [t |-> "string", s |-> "a"] }

\* the documents: objects with the attributes from and to, the other JSON
\* types, and text that is not JSON
JsonDocs ==
    { [kind |-> "object", from |-> f, to |-> t] : f \in AttrValues, t \in AttrValues }
    \cup { [kind |-> k, from |-> JsonAbsent, to |-> JsonAbsent] :
             k \in {"null", "string", "array", "number", "malformed"} }

\* what json.Unmarshal stores in a *string field for the attribute value v,
\* <<>> a nil pointer and <<s>> a pointer to s: absent and null leave it
\* nil, a value of another type is skipped
DecodeField(v) == IF v.t = "string" THEN <<v.s>> ELSE <<>>

\* json.Unmarshal(data, &tmp): the error and the decoded tmpType
Unmarshal(data) ==
    CASE data.kind = "malformed" -> [err |-> "SyntaxError", From |-> <<>>, To |-> <<>>]
      [] data.kind = "null" -> [err |-> "nil", From |-> <<>>, To |-> <<>>]
      [] data.kind \in {"string", "array", "number"} ->
            [err |-> "UnmarshalTypeError", From |-> <<>>, To |-> <<>>]
      [] OTHER ->
            [err |-> IF data.from.t = "number" \/ data.to.t = "number"
                     THEN "UnmarshalTypeError" ELSE "nil",
             From |-> DecodeField(data.from), To |-> DecodeField(data.to)]

NewTarget_Mut(tmp) == [From |-> tmp.To[1], To |-> tmp.From[1]]
\* SubstitutePath{*tmp.From, *tmp.To}
NewTarget(tmp) == [From |-> tmp.From[1], To |-> tmp.To[1]]

SubstTargets == { [From |-> "", To |-> ""], [From |-> "old", To |-> "was"] }

SubstIdle ==
    /\ substData = [kind |-> "null", from |-> JsonAbsent, to |-> JsonAbsent]
    /\ substM = [From |-> "", To |-> ""]
    /\ substPc = "idle"
    /\ substErr = "nil"

SubstInit ==
    /\ substData \in JsonDocs
    /\ substM \in SubstTargets
    /\ substPc = "call"
    /\ substErr = "nil"

UnmarshalJSON ==
    /\ substPc = "call"
    /\ substPc' = "ret"
    /\ LET tmp == Unmarshal(substData) IN
       IF tmp.err = "UnmarshalTypeError"
       THEN substErr' = "cannot use as 'substitutePath'" /\ substM' = substM
       ELSE IF tmp.err # "nil"
       THEN substErr' = tmp.err /\ substM' = substM
       ELSE IF tmp.From = <<>> \/ tmp.To = <<>>
       THEN /\ substErr' = "'substitutePath' requires both 'from' and 'to' entries"
            /\ substM' = substM
       ELSE substErr' = "nil" /\ substM' = NewTarget(tmp)
    /\ UNCHANGED <<substData, notSubst>>

\* ------------------------------------------------------------------------
\* Specifications
\* ------------------------------------------------------------------------
InitParse == ParseInit /\ RmIdle /\ RecIdle /\ ReplayIdle /\ AvailIdle /\ SubstIdle /\ RunsIdle /\ RRIdle
NextParse == ParseCmd
SpecParse == InitParse /\ [][NextParse]_vars

InitRm == RmInit /\ ParseIdle /\ RecIdle /\ ReplayIdle /\ AvailIdle /\ SubstIdle /\ RunsIdle /\ RRIdle
NextRm == RmOpen \/ RmReaddir \/ RmCheck \/ RmRemoveEntry \/ RmRemoveDir
SpecRm == InitRm /\ [][NextRm]_vars

InitRec == RecInit /\ ParseIdle /\ RmIdle /\ ReplayIdle /\ AvailIdle /\ SubstIdle /\ RunsIdle /\ RRIdle
\* a session on which the caller calls run() only
NextRun ==
    \/ RecordAsync
    \/ RunCall
    \/ RunStart
    \/ ChildWrite
    \/ ChildExit
    \/ RunWait
    \/ RunClosefn
    \/ RunCloseWfd
    \/ DrainEOF
    \/ TracedirHandoff
SpecRun == InitRec /\ [][NextRun]_vars
\* the goroutines of the session are scheduled
FairRun ==
    /\ SpecRun
    /\ WF_vars(RunStart)
    /\ WF_vars(RunWait)
    /\ WF_vars(RunClosefn)
    /\ WF_vars(RunCloseWfd)
    /\ WF_vars(DrainEOF)
    /\ WF_vars(TracedirHandoff)
\* a session on which the caller calls run() and stop()
NextRec == NextRun \/ Stop
SpecRec == InitRec /\ [][NextRec]_vars

\* a session on which the caller invokes run() more than once
NextRuns ==
    \/ NextRun
    \/ \E i \in ExtraRuns : XRunCall(i)
    \/ \E i \in ExtraRuns : XRunStart(i)
    \/ \E i \in ExtraRuns : XRunWait(i)
    \/ \E i \in ExtraRuns : XRunClosefn(i)
    \/ \E i \in ExtraRuns : XRunCloseWfd(i)
    \/ \E i \in ExtraRuns : XTracedirHandoff(i)
SpecRuns == InitRec /\ [][NextRuns]_vars
\* every invocation and the goroutine of the session are scheduled
FairRuns ==
    /\ SpecRuns
    /\ WF_vars(RunClosefn)
    /\ WF_vars(RunCloseWfd)
    /\ WF_vars(DrainEOF)
    /\ WF_vars(TracedirHandoff)
    /\ \A i \in ExtraRuns :
          /\ WF_vars(XRunClosefn(i))
          /\ WF_vars(XRunCloseWfd(i))
          /\ WF_vars(XTracedirHandoff(i))

InitReplay == ReplayInit /\ ParseIdle /\ RmIdle /\ RecIdle /\ AvailIdle /\ SubstIdle /\ RunsIdle /\ RRIdle
NextReplay ==
    \/ ReplayBegin
    \/ ReplayStart
    \/ RrWrite
    \/ RrExit
    \/ ScanRead
    \/ InitHandoff
    \/ ScanClose
    \/ ScanCopy
    \/ ReplayFinish
SpecReplay == InitReplay /\ [][NextReplay]_vars

InitAvail == AvailInit /\ ParseIdle /\ RmIdle /\ RecIdle /\ ReplayIdle /\ SubstIdle /\ RunsIdle /\ RRIdle
SpecAvail == InitAvail /\ [][CheckAvail]_vars
InitSubst == SubstInit /\ ParseIdle /\ RmIdle /\ RecIdle /\ ReplayIdle /\ AvailIdle /\ RunsIdle /\ RRIdle
SpecSubst == InitSubst /\ [][UnmarshalJSON]_vars

InitRR ==
    /\ RRInit /\ RecInit /\ redirects \in RRRedirects
    /\ ParseIdle /\ RmIdle /\ ReplayIdle /\ AvailIdle /\ SubstIdle /\ RunsIdle
NextRR ==
    \/ RRCall
    \/ RRRecordFailed
    \/ RRRecordDone
    \/ RRReplayDone
    \/ (rrPc = "record" /\ NextRun)
    \/ (rrPc = "replay" /\ NextReplay)
SpecRR == InitRR /\ [][NextRR]_vars

Init == InitParse \/ InitRm \/ InitRec \/ InitReplay \/ InitAvail \/ InitSubst \/ InitRR
Next == NextParse \/ NextRm \/ NextRec \/ NextReplay \/ CheckAvail \/ UnmarshalJSON \/ NextRuns \/ NextRR
Spec == Init /\ [][Next]_vars

\* ------------------------------------------------------------------------
\* Properties of rrParseGdbCommand (checked under SpecParse)
\* ------------------------------------------------------------------------
Fields == SplitQuotedFields(line)

\* The scanner that always skips the argument of `-ex`.
RECURSIVE RefScan(_, _, _, _)
RefScan(ln, fields, i, port) ==
    IF i > Len(fields)
    THEN [early |-> FALSE, port |-> port, err |-> ErrNil]
    ELSE CASE fields[i] = FlagEx ->
                IF i + 1 > Len(fields)
                THEN [early |-> TRUE, port |-> <<>>,
                      err |-> ErrMalformedRRGdbCommand(ln, "-ex not followed by an argument")]
                ELSE RefScan(ln, fields, i + 2,
                             IF HasPrefix(fields[i + 1], targetCmd)
                             THEN TrimPrefixLen(fields[i + 1], Len(targetCmd)) ELSE port)
           [] fields[i] = FlagL -> RefScan(ln, fields, i + 2, port)
           [] OTHER -> RefScan(ln, fields, i + 1, port)

RefParse(ln) ==
    LET fields == SplitQuotedFields(ln)
        s == RefScan(ln, fields, 1, <<>>)
    IN  IF s.early THEN rrInit(<<>>, <<>>, s.err)
        ELSE IF s.port = <<>>
             THEN rrInit(<<>>, <<>>, ErrMalformedRRGdbCommand(ln, "could not find -ex argument"))
             ELSE rrInit(s.port, fields[Len(fields)], ErrNil)

\* C4: every `-ex` consumes the field after it, whether or not that field
\* carries the target command, so the parser's result equals the result of
\* the scanner that always skips one extra position after `-ex`.
C4_ExAlwaysConsumesArgument ==
    parsePc = "ret" => parseRes = RefParse(line)

\* the fields are -ex, 'target extended-remote P' with P non-empty, -l,
\* one argument, <exe>
IsCanonical(f) ==
    /\ Len(f) = 5
    /\ f[1] = FlagEx
    /\ HasPrefix(f[2], targetCmd)
    /\ Len(f[2]) > Len(targetCmd)
    /\ f[3] = FlagL

\* C5 as stated: for every line of the canonical form the parser returns no
\* error, the port P and the last field as executable, whatever the last
\* field is; and a returned port always comes with the last field.
C5_CanonicalAnyExe ==
    parsePc = "ret" =>
        /\ IsCanonical(Fields) =>
              /\ parseRes.err.isNil
              /\ parseRes.port = TrimPrefixLen(Fields[2], Len(targetCmd))
              /\ parseRes.exe = Fields[5]
        /\ parseRes.port # <<>> => parseRes.exe = Fields[Len(Fields)]

\* C5 amended: for every line of the canonical form whose last field is not
\* `-ex` the parser returns no error, the port P and the last field as
\* executable; when the last field is `-ex` it returns the error "-ex not
\* followed by an argument"; whenever the parser returns a port, it returns
\* no error and the executable is the last field of the line.
C5_CanonicalExeNotEx ==
    parsePc = "ret" =>
        /\ (IsCanonical(Fields) /\ Fields[5] # FlagEx) =>
              /\ parseRes.err.isNil
              /\ parseRes.port = TrimPrefixLen(Fields[2], Len(targetCmd))
              /\ parseRes.exe = Fields[5]
        /\ (IsCanonical(Fields) /\ Fields[5] = FlagEx) =>
              /\ ~parseRes.err.isNil
              /\ parseRes.err.reason = "-ex not followed by an argument"
              /\ parseRes.port = <<>>
        /\ parseRes.port # <<>> =>
              /\ parseRes.err.isNil
              /\ parseRes.exe = Fields[Len(Fields)]

C5_Witness ==
    /\ parsePc = "ret"
    /\ IsCanonical(Fields)
    /\ Fields[4] = <<"s", " ", "/">>
    /\ Fields[5] = <<"a">>
    /\ parseRes = rrInit(<<"9">>, <<"a">>, ErrNil)

NoTargetPair(f) ==
    ~ \E i \in 1..(Len(f) - 1) : f[i] = FlagEx /\ HasPrefix(f[i + 1], targetCmd)

\* C6: a line in which no `-ex` is followed by a field starting with the
\* target command yields a malformed-command error that stores the input
\* line exactly, with empty port and executable; no result carries both an
\* error and a non-empty port.
C6_MalformedKeepsLine ==
    parsePc = "ret" =>
        /\ NoTargetPair(Fields) =>
              /\ ~parseRes.err.isNil
              /\ parseRes.err.line = line
              /\ parseRes.port = <<>>
              /\ parseRes.exe = <<>>
        /\ ~(~parseRes.err.isNil /\ parseRes.port # <<>>)

C6_Witness ==
    /\ parsePc = "ret"
    /\ NoTargetPair(Fields)
    /\ Len(Fields) = 3
    /\ Last(line) = "\n"
    /\ parseRes.err = ErrMalformedRRGdbCommand(line, "could not find -ex argument")

\* ------------------------------------------------------------------------
\* Properties of safeRemoveAll (checked under SpecRm)
\* ------------------------------------------------------------------------
OrigNames == NamesOf(order)
OrigAllFiles == \A j \in 1..Len(order) : order[j] \notin DirNames
OrigHasDir == \E j \in 1..Len(order) : order[j] \in DirNames
Untouched == disk = [exists |-> TRUE, names |-> OrigNames]
AllRemoved == disk.names = {} /\ ~disk.exists

\* C7: on a directory whose entries are all non-directories safeRemoveAll
\* removes every entry and then the directory (in the executions where no
\* call fails; the failing ones are the subject of C8); on a directory with
\* a subdirectory entry it removes nothing, whatever the listing order.
C7_RemovesAllWhenNoCallFails ==
    /\ (rmPc = "ret" /\ OrigAllFiles /\ rmErr = "none") => AllRemoved
    /\ OrigHasDir => Untouched

C7_Witness ==
    /\ rmPc = "ret"
    /\ rmErr = "none"
    /\ Len(order) = 2
    /\ OrigAllFiles
    /\ AllRemoved

\* C8 as stated: when safeRemoveAll returns, either every entry and the
\* directory have been removed or the directory and all its entries are
\* unchanged, also when listing or a removal fails.
C8_AllOrNothing ==
    rmPc = "ret" => (AllRemoved \/ Untouched)

\* C8 amended: safeRemoveAll removes nothing when the directory cannot be
\* opened or listed or when an entry is a subdirectory; otherwise it removes
\* the entries in listing order and returns at the first removal that fails,
\* so the removed entries are a prefix of the listing and the entry whose
\* removal failed is still there; the directory is removed only after all
\* of its entries.
C8_RemovesListingPrefix ==
    /\ \E k \in 0..Len(order) : OrigNames \ disk.names = { order[j] : j \in 1..k }
    /\ disk.names \subseteq OrigNames
    /\ (rmErr \in {"open", "readdir"} \/ OrigHasDir) => disk.names = OrigNames
    /\ (rmPc = "ret" /\ rmErr = "remove") => (disk.exists /\ fis[rmI].name \in disk.names)
    /\ (OrigNames # {} /\ ~disk.exists) => disk.names = {}

C8_Witness ==
    /\ rmPc = "ret"
    /\ rmErr = "remove"
    /\ Len(order) = 3
    /\ Cardinality(disk.names) = 2
    /\ disk.exists

\* ------------------------------------------------------------------------
\* Properties of RecordAsync (checked under SpecRec, SpecRun and FairRun)
\* ------------------------------------------------------------------------
\* C1: on a session RecordAsync returned, stop() at any moment before the
\* subprocess has produced output, also before run() has started it,
\* followed by run(), faults in neither call.
C1_StopThenRunNeverFaults ==
    (recPc = "returned" /\ pipeBuf = <<>>) => ~crashed

\* C2: once run() has been called and the subprocess has exited or failed
\* to start, run() returns: it closes the parent's write end, the goroutine
\* reaches EOF and sends the trimmed text, run() receives it; also when the
\* subprocess wrote nothing.
C2_RunReturnsAfterExit ==
    /\ [](runPc = "ret" =>
            /\ "wfd" \notin openFds
            /\ drainPc = "done"
            /\ runRet.err = runErr
            /\ pipeBuf = <<"/", "t", "\n">> => runRet.tracedir = <<"/", "t">>
            /\ pipeBuf \in {<<>>, <<"\n">>} => runRet.tracedir = <<>>)
    /\ ((runPc # "idle" /\ (child.state = "exited" \/ runErr = "start")) ~> runPc = "ret")

C2_Witness ==
    /\ runPc = "ret"
    /\ child.state = "exited"
    /\ pipeBuf = <<>>
    /\ runRet.tracedir = <<>>

\* C3: when openRedirects fails in path mode it returns, with the error, a
\* closefn that can be called and that closes the handles opened before the
\* failing step, so that none of them stays open.
C3_FailedResolveReleases ==
    (recPc = "error" /\ recErr = ErrOther("open")) =>
        /\ ~closefn.isNil
        /\ (openFds \cap PathFileSet) \subseteq NamesOf(closefn.toclose)

\* ------------------------------------------------------------------------
\* Properties of Replay and rrStderrParser (checked under SpecReplay)
\* ------------------------------------------------------------------------
RECURSIVE Flatten(_)
Flatten(ss) == IF Len(ss) = 0 THEN <<>> ELSE ss[1] \o Flatten(Tail(ss))

\* the first complete line of t that starts with rrGdbCommandPrefix, <<>>
\* when there is none
RECURSIVE FirstCmdLine(_)
FirstCmdLine(t) ==
    LET nl == NewlineAt(t) IN
    IF nl = 0 THEN <<>>
    ELSE IF HasPrefix(SubSeq(t, 1, nl), rrGdbCommandPrefix) THEN SubSeq(t, 1, nl)
    ELSE FirstCmdLine(SubSeq(t, nl + 1, Len(t)))

IsReadError(i) ==
    /\ ~i.err.isNil
    /\ i.err.reason \in {"EOF", "file already closed"}
    /\ i.port = <<>>
    /\ i.exe = <<>>

\* C9: initch receives at most one send, the send is followed at once by
\* close(initch) and nothing is sent after the close; every path out of the
\* loop has sent exactly one value: the parser's result for the first line
\* starting with rrGdbCommandPrefix, or the read error.
C9_InitchSingleUse ==
    /\ [](/\ initch.sends <= 1
          /\ initch.closed => (initch.sends = 1 /\ scanPc \in {"copy", "done"})
          /\ scanPc \in {"copy", "done"} => (initch.closed /\ initch.sends = 1)
          /\ initch.sends = 1 =>
                \/ IsReadError(init) /\ scanFrom = "err"
                \/ /\ scanFrom = "cmd"
                   /\ FirstCmdLine(Flatten(stream)) # <<>>
                   /\ init = rrParseGdbCommand(
                                SubSeq(FirstCmdLine(Flatten(stream)), 7,
                                       Len(FirstCmdLine(Flatten(stream))))))
    /\ [][initch'.sends # initch.sends => (scanPc' = "close" /\ ~initch'.closed)]_vars
    /\ [][(scanPc = "close" /\ scanPc' # "close") => initch'.closed]_vars
    /\ [][initch.closed => initch'.sends = initch.sends]_vars

C9_Witness ==
    /\ initch = [sends |-> 1, closed |-> TRUE]
    /\ scanPc = "done"
    /\ scanFrom = "cmd"
    /\ init = rrInit(<<"9">>, <<"a">>, ErrNil)
    /\ Len(stream) = 3

\* C10: when rrcmd.Start() fails Replay returns the start error and
\* rrStderrParser, seeing the closed stream, ends: it does not stay blocked
\* on its send to initch.
C10_ScanEndsAfterStartFailure ==
    (replayPc = "ret" /\ replayRet.err = ErrOther("start")) => scanPc # "send"

\* ------------------------------------------------------------------------
\* Properties of openRedirects inside a session (checked under SpecRec)
\* ------------------------------------------------------------------------
\* the handles the caller supplied in RedirectFileMode
Supplied == { redirects.WriterFiles[k] : k \in 1..3 } \ {"nil"}

\* C12: in RedirectFileMode openRedirects returns the supplied stdout and
\* stderr unchanged and the supplied stdin, or os.Stdin when it is nil; it
\* opens no file and never fails, its closefn closes nothing, and no
\* supplied handle is ever closed by RecordAsync, run() or closefn.
C12_FileModeBorrowsHandles ==
    redirects.Mode = RedirectFileMode =>
        /\ recErr # ErrOther("open")
        /\ openFds \cap PathFileSet = {}
        /\ Supplied \subseteq openFds
        /\ \A h \in CallerFiles \cup StdFiles : closeCount[h] = 0
        /\ recPc = "returned" =>
              /\ cmdStdio[1] = (IF redirects.WriterFiles[1] = "nil" THEN "os.Stdin"
                                ELSE redirects.WriterFiles[1])
              /\ cmdStdio[2] = redirects.WriterFiles[2]
              /\ cmdStdio[3] = redirects.WriterFiles[3]
              /\ ~closefn.isNil
              /\ closefn.toclose = <<>>

C12_Witness ==
    /\ redirects.Mode = RedirectFileMode
    /\ redirects.WriterFiles[1] = "nil"
    /\ runPc = "ret"
    /\ cmdStdio = <<"os.Stdin", "w1", "w2">>
    /\ {"w1", "w2"} \subseteq openFds

\* the handles openRedirects opens in RedirectPathMode
PathOpened == { PathFiles[k] : k \in { j \in 1..3 : redirects.Paths[j] # "" } }

\* C17: in RedirectPathMode, after a successful openRedirects, the handles
\* it opened (one per non-empty path) are exactly the tracked ones; when
\* run() has returned each has been closed exactly once, and no Close
\* happens while the subprocess runs or before run() got past rrcmd.Run();
\* os.Stdin, os.Stdout and os.Stderr are never closed.
C17_PathModeClosesOnce ==
    (redirects.Mode = RedirectPathMode /\ recPc = "returned") =>
        /\ NamesOf(closefn.toclose) = PathOpened
        /\ Len(closefn.toclose) = Cardinality(PathOpened)
        /\ runPc = "ret" =>
              \A h \in PathOpened : closeCount[h] = 1 /\ h \notin openFds
        /\ \A h \in PathOpened :
              /\ closeCount[h] <= 1
              /\ closeCount[h] = 0 => h \in openFds
              /\ closeCount[h] = 1 =>
                    /\ child.state # "running"
                    /\ runPc \in {"closewfd", "recv", "ret"}
        /\ \A h \in StdFiles : closeCount[h] = 0 /\ h \in openFds

C17_Witness ==
    /\ redirects.Mode = RedirectPathMode
    /\ redirects.Paths = <<"ok", "", "ok">>
    /\ runPc = "ret"
    /\ child.state = "exited"
    /\ closeCount["stdinFile"] = 1
    /\ closeCount["stderrFile"] = 1
    /\ closeCount["stdoutFile"] = 0

\* C20: when RecordAsync returns an error nothing is left behind: no end
\* of the pipe and no file opened for a redirect is open, the draining
\* goroutine was not started and no subprocess was spawned.
C20_ErrorLeavesNothing ==
    recPc = "error" =>
        /\ openFds \cap ({"rfd", "wfd"} \cup PathFileSet) = {}
        /\ drainPc = "none"
        /\ child.state = "none"
        /\ process = "nil"

\* ------------------------------------------------------------------------
\* Order of the events of a session (checked under SpecRec)
\* ------------------------------------------------------------------------
\* C16: the events of a session are ordered: the subprocess exits (or fails
\* to start), then run() closes the parent's write end, then the goroutine
\* sends, then run() receives and returns; the goroutine never sends while
\* the parent's write end is open, and run() never returns before the
\* subprocess has exited.
C16_SessionOrder ==
    /\ [](/\ closeCount["wfd"] > 0 =>
                /\ recPc = "returned"
                /\ runPc \in {"recv", "ret"}
                /\ child.state \in {"exited", "none"}
                /\ child.state = "none" => runErr = "start"
          /\ drainPc \in {"send", "done"} =>
                (closeCount["wfd"] = 1 /\ "wfd" \notin openFds /\ ~child.wfd)
          /\ drainPc = "done" <=> runPc = "ret"
          /\ runPc = "ret" => child.state # "running")
    /\ [][drainPc' = "send" /\ drainPc # "send" => closeCount["wfd"] = 1]_vars
    /\ [][runPc' = "ret" /\ runPc # "ret" => drainPc = "send" /\ drainPc' = "done"]_vars

C16_Witness ==
    /\ runPc = "ret"
    /\ drainPc = "done"
    /\ child.state = "exited"
    /\ child.signalled
    /\ runRet.tracedir = <<"/", "t">>

\* ------------------------------------------------------------------------
\* Kill in Replay (checked under SpecReplay)
\* ------------------------------------------------------------------------
\* C14: when Replay returns an error after rrcmd.Start() succeeded (init
\* carried an error, or Dial failed) a Kill was issued before the return and
\* no target is returned; when Replay returns a target no Kill was issued.
C14_KillOnErrorAfterStart ==
    replayPc = "ret" =>
        /\ replayRet.err \in {ErrOther("init"), ErrOther("dial")} =>
              /\ killCount = 1
              /\ rrProc \in {"killed", "exited"}
              /\ ~replayRet.tgt
        /\ replayRet.tgt => (killCount = 0 /\ replayRet.err = ErrorNil)
        /\ replayRet.err \notin {ErrOther("init"), ErrOther("dial")} => killCount = 0

C14_Witness ==
    /\ replayPc = "ret"
    /\ replayRet.err = ErrOther("dial")
    /\ killCount = 1
    /\ rrProc = "killed"
    /\ init.port = <<"9">>

\* ------------------------------------------------------------------------
\* Properties of checkRRAvailable (checked under SpecAvail)
\* ------------------------------------------------------------------------
\* the integer a content denotes after trimming, when Atoi accepts it
ParsedLevel(t) ==
    CASE t = <<"1", "\n">> -> [parses |-> TRUE, n |-> 1]
      [] t = <<"2", "\n">> -> [parses |-> TRUE, n |-> 2]
      [] t = <<"-", "1", "\n">> -> [parses |-> TRUE, n |-> 0 - 1]
      [] t = <<"1", "2">> -> [parses |-> TRUE, n |-> 12]
      [] t = <<"0", "\n">> -> [parses |-> TRUE, n |-> 0]
      [] t = <<" ", "3", " ", "\n">> -> [parses |-> TRUE, n |-> 3]
      [] t = <<"+", "2">> -> [parses |-> TRUE, n |-> 2]
      [] t = <<"4", "\n">> -> [parses |-> TRUE, n |-> 4]
      [] OTHER -> [parses |-> FALSE, n |-> 0]

\* C13 as stated: ErrBackendUnavailable whenever rr is not on the path;
\* otherwise ErrPerfEventParanoid{n} exactly when the file is readable and
\* its trimmed content parses to an integer n > 1, and nil in all other
\* cases.
C13_CheckClassifies ==
    availPc = "ret" =>
        LET lv == ParsedLevel(availEnv.buf) IN
        /\ ~availEnv.lookPath => availRes = ErrBackendUnavailable
        /\ availEnv.lookPath =>
              IF availEnv.readOk /\ lv.parses /\ lv.n > 1
              THEN availRes = ErrPerfEventParanoid(lv.n)
              ELSE availRes = ErrorNil

\* C13 amended: ErrBackendUnavailable whenever rr is not on the path;
\* otherwise ErrPerfEventParanoid{n} when the file is readable and its
\* trimmed content is a decimal integer n > 1 in the range of int, and
\* ErrPerfEventParanoid{largest int} when it is a decimal integer above
\* that range (Atoi's error is dropped, its clamped value is used); nil in
\* all other cases.
C13_CheckClassifiesClamped ==
    availPc = "ret" =>
        LET lv == ParsedLevel(availEnv.buf) IN
        /\ ~availEnv.lookPath => availRes = ErrBackendUnavailable
        /\ availEnv.lookPath =>
              IF availEnv.readOk /\ lv.parses /\ lv.n > 1
              THEN availRes = ErrPerfEventParanoid(lv.n)
              ELSE IF availEnv.readOk /\ availEnv.buf = Nines
              THEN availRes = ErrPerfEventParanoid(MaxInt)
              ELSE availRes = ErrorNil

C13_Witness ==
    /\ availPc = "ret"
    /\ availEnv = [lookPath |-> TRUE, readOk |-> TRUE, buf |-> <<" ", "3", " ", "\n">>]
    /\ availRes = ErrPerfEventParanoid(3)

\* ------------------------------------------------------------------------
\* Properties of SubstitutePath.UnmarshalJSON (checked under SpecSubst)
\* ------------------------------------------------------------------------
\* the document is an object whose from and to are both non-null strings
BothStrings ==
    /\ substData.kind = "object"
    /\ substData.from.t = "string"
    /\ substData.to.t = "string"

\* C15: decoding succeeds iff both from and to are present, non-null
\* strings, and then the target holds exactly those two values; in every
\* other case an error is returned and the target is left unchanged.
C15_DecodeAllOrNothing ==
    /\ [](substPc = "ret" =>
            /\ substErr = "nil" <=> BothStrings
            /\ substErr = "nil" =>
                  substM = [From |-> substData.from.s, To |-> substData.to.s])
    /\ [][substPc = "call" /\ substPc' = "ret" /\ substErr' # "nil" => substM' = substM]_vars

C15_Witness ==
    /\ substPc = "ret"
    /\ substErr = "nil"
    /\ substData.from = [t |-> "string", s |-> ""] /\ substData.to = [t |-> "string", s |-> "a"]
    /\ substM = [From |-> "", To |-> "a"]

\* ------------------------------------------------------------------------
\* Properties of repeated run() invocations (checked under FairRuns)
\* ------------------------------------------------------------------------
\* the invocations of run() that have returned; 0 is the first invocation
Returned == (IF runPc = "ret" THEN {0} ELSE {}) \cup { i \in ExtraRuns : xrunPc[i] = "ret" }
\* the invocations of run() blocked on the receive
Receiving == (IF runPc = "recv" THEN {0} ELSE {}) \cup { i \in ExtraRuns : xrunPc[i] = "recv" }

\* C18: whatever the number and interleaving of run() invocations of one
\* session, the goroutine sends once and never again, at most one
\* invocation returns, an invocation that returned did so on that send,
\* and the send takes place once an invocation waits for it.
C18_OutcomeObservedOnce ==
    /\ [](Cardinality(Returned) <= 1)
    /\ [](Returned # {} => drainPc = "done")
    /\ [][drainPc = "done" => drainPc' = "done"]_vars
    /\ [][Cardinality(Returned') > Cardinality(Returned) => drainPc = "send" /\ drainPc' = "done"]_vars
    /\ (Receiving # {} /\ ~child.wfd ~> drainPc = "done")

\* a second invocation took the outcome while the first one still waits
C18_Witness ==
    /\ xrunPc[1] = "ret"
    /\ runPc = "recv"
    /\ drainPc = "done"

\* ------------------------------------------------------------------------
\* Properties of RecordAndReplay (checked under SpecRR)
\* ------------------------------------------------------------------------
\* Record has returned
RecordReturned == recPc = "error" \/ runPc = "ret"
\* what Record returned
RecordTracedir == IF recPc = "error" THEN <<>> ELSE runRet.tracedir
RecordErr == IF recPc = "error" THEN recErr ELSE RunError(runRet.err)
\* Replay has been called
ReplayAttempted == replayPc # "idle"

\* C11: a replay is attempted iff the recorder's trace directory is
\* non-empty. With an empty trace directory the result is the recorder's
\* error, an empty path and no target, and no replay subprocess is spawned;
\* with a non-empty one Replay runs with deleteOnDetach = true and the
\* result is Replay's target and error with the trace directory, whatever
\* the recorder's own error.
C11_ReplayIffTracedir ==
    /\ ReplayAttempted =>
          /\ RecordReturned /\ RecordTracedir # <<>>
          /\ replayArgs.deleteOnDetach
    /\ rrPc = "ret" =>
          /\ RecordReturned
          /\ ReplayAttempted <=> RecordTracedir # <<>>
          /\ IF RecordTracedir = <<>>
             THEN /\ rrRet = [tgt |-> FALSE, tracedir |-> <<>>, err |-> RecordErr]
                  /\ rrProc = "none"
             ELSE /\ replayPc = "ret"
                  /\ rrRet = [tgt |-> replayRet.tgt, tracedir |-> RecordTracedir,
                              err |-> replayRet.err]

\* the recorded program crashed, its trace was replayed
C11_Witness ==
    /\ rrPc = "ret"
    /\ runRet.err = "exit"
    /\ rrRet.tgt
    /\ rrRet.tracedir = <<"/", "t">>
    /\ rrRet.err = ErrorNil

\* C19: RecordAndReplay never returns no target together with a nil error.
C19_NoTargetMeansError ==
    rrPc = "ret" /\ ~rrRet.tgt => rrRet.err # ErrorNil
====
